---------------------------- MODULE Spec2Model ----------------------------
(* A model of the simple-library catalog: the JSON persistence adapter     *)
(* (app/storage.py), the in-memory repository (app/repository.py) and the  *)
(* catalog service (app/services.py).                                      *)
(*                                                                         *)
(* Strings are sequences of one-character tokens.  Python objects are      *)
(* mutable and shared by reference, so the repository's dict is modelled   *)
(* as an ordered sequence of (key, ref) entries over a heap of Book        *)
(* records: a mutation through one reference is seen through all of them.  *)
EXTENDS Integers, Sequences, FiniteSets, TLC

VARIABLES
    fileExists,   \* does the JSON data file exist on disk
    file,         \* the JSON array stored in the data file (sequence of dicts)
    alive,        \* a LibraryService instance has been constructed
    autosave,     \* config.autosave of the live service
    books,        \* repository._books: insertion-ordered <<key, ref>> entries
    heap,         \* the Book objects the entries refer to
    now,          \* the wall clock read by datetime.utcnow()
    calls,        \* number of calls made so far
    budget,       \* number of calls the run may make
    last,         \* the last call made on the service and how it ended
    peer,         \* the repository of a second service on the same data file
    pending       \* the calls in flight on the service, step by step

vars == <<fileExists, file, alive, autosave, books, heap, now, calls, budget, last,
          peer, pending>>

-----------------------------------------------------------------------------
(* Bounds *)

MaxTime == 1      \* the clock takes the values 0..MaxTime
MaxCalls == 3     \* calls made on the service in one run
MaxInvocations == 2   \* invocations of the command line in one run

-----------------------------------------------------------------------------
(* Optional values: None is the empty sequence, a present value a 1-tuple *)

None == <<>>
Some(x) == <<x>>

-----------------------------------------------------------------------------
(* Characters and strings *)

Digits == {"0","1","2","3","4","5","6","7","8","9"}
LowerSeq == <<"a","b","c","d","e","f","g","h","i","j","k","l","m",
              "n","o","p","q","r","s","t","u","v","w","x","y","z">>
UpperSeq == <<"A","B","C","D","E","F","G","H","I","J","K","L","M",
              "N","O","P","Q","R","S","T","U","V","W","X","Y","Z">>
LowerLetters == {LowerSeq[i] : i \in 1..26}
UpperLetters == {UpperSeq[i] : i \in 1..26}

\* "j_caron" is U+01F0 (LATIN SMALL LETTER J WITH CARON), a letter with no
\* precomposed capital; "_caron" is U+030C (COMBINING CARON), a mark.
\* str.isalnum() is true of letters and digits, false of marks, separators
\* and white space.
Alnum == Digits \cup LowerLetters \cup UpperLetters \cup {"j_caron"}

isalnum(ch) == ch \in Alnum

\* str.upper() applies the full Unicode case mapping, which is one-to-many
\* for U+01F0: "ǰ".upper() == "J̌".
\* ch.upper() for one character
upper_ch ==
    [ch \in Alnum \cup {"-", " ", "_caron"} |->
        IF ch = "j_caron" THEN <<"J", "_caron">>
        ELSE IF ch \in LowerLetters
             THEN <<UpperSeq[CHOOSE i \in 1..26 : LowerSeq[i] = ch]>>
             ELSE <<ch>>]

\* "".join(ch for ch in value if ch.isalnum()).upper(), character by
\* character: a character is kept when isalnum() holds of it as written, and
\* what is kept is then upper-cased
RECURSIVE normalize_from(_, _, _)
normalize_from(value, i, acc) ==
    IF i > Len(value) THEN acc
    ELSE normalize_from(value, i + 1,
                        IF isalnum(value[i]) THEN acc \o upper_ch[value[i]] ELSE acc)

normalize_isbn(value) == normalize_from(value, 1, <<>>)

isspace(ch) == ch = " "

RECURSIVE lstrip(_)
lstrip(s) == IF s # <<>> /\ isspace(Head(s)) THEN lstrip(Tail(s)) ELSE s

RECURSIVE rstrip(_)
rstrip(s) == IF s # <<>> /\ isspace(s[Len(s)]) THEN rstrip(SubSeq(s, 1, Len(s) - 1)) ELSE s

strip(s) == rstrip(lstrip(s))

\* ch.lower() for one character: the capitals have one-character lower
\* forms, every other character used here is its own lower form
lower_ch(ch) ==
    IF ch \in UpperLetters THEN LowerSeq[CHOOSE i \in 1..26 : UpperSeq[i] = ch] ELSE ch

\* str.lower()
lower(s) == [i \in 1..Len(s) |-> lower_ch(s[i])]

\* "fragment in text" for strings
contains(fragment, text) ==
    \E k \in 0..(Len(text) - Len(fragment)) :
        \A i \in 1..Len(fragment) : text[k + i] = fragment[i]

-----------------------------------------------------------------------------
(* app/data.py *)

default_catalog ==
    << [isbn |-> <<"9","7","8","0","1","4","3","1","2","7","7","4","1">>,
        title |-> <<"T","h","e"," ","A","l","c","h","e","m","i","s","t">>,
        author |-> <<"P","a","u","l","o"," ","C","o","e","l","h","o">>],
       [isbn |-> <<"9","7","8","0","6","7","9","7","8","3","2","6","8">>,
        title |-> <<"P","r","i","d","e"," ","a","n","d"," ","P","r","e","j","u","d","i","c","e">>,
        author |-> <<"J","a","n","e"," ","A","u","s","t","e","n">>],
       [isbn |-> <<"9","7","8","0","3","0","7","4","7","4","2","7","8">>,
        title |-> <<"T","h","e"," ","G","i","r","l"," ","w","i","t","h"," ","t","h","e"," ","D","r","a","g","o","n"," ","T","a","t","t","o","o">>,
        author |-> <<"S","t","i","e","g"," ","L","a","r","s","s","o","n">>],
       [isbn |-> <<"9","7","8","0","7","4","7","5","3","2","7","4","3">>,
        title |-> <<"H","a","r","r","y"," ","P","o","t","t","e","r"," ","a","n","d"," ","t","h","e"," ","P","h","i","l","o","s","o","p","h","e","r","'","s"," ","S","t","o","n","e">>,
        author |-> <<"J",".","K","."," ","R","o","w","l","i","n","g">>],
       [isbn |-> <<"9","7","8","0","0","6","1","1","2","0","0","8","4">>,
        title |-> <<"T","o"," ","K","i","l","l"," ","a"," ","M","o","c","k","i","n","g","b","i","r","d">>,
        author |-> <<"H","a","r","p","e","r"," ","L","e","e">>] >>

-----------------------------------------------------------------------------
(* app/models.py *)

Book(isbn, title, author, added_at) ==
    [isbn |-> isbn, title |-> title, author |-> author, added_at |-> added_at,
     borrower |-> None, borrowed_at |-> None]

checkout(book, borrower, t) ==
    [book EXCEPT !.borrower = Some(borrower), !.borrowed_at = Some(t)]

\* checkin() that forgets to clear the time stamp
checkin_keeps_stamp(book) == [book EXCEPT !.borrower = None]

checkin(book) == [book EXCEPT !.borrower = None, !.borrowed_at = None]

is_available(book) == book.borrower = None

-----------------------------------------------------------------------------
(* app/storage.py *)

\* datetime.isoformat() / datetime.fromisoformat(): the text form keeps the
\* microseconds, so the timestamp is carried whole inside the string.
isoformat(t) == [iso |-> t]
fromisoformat(s) == s.iso

\* "<x> if book.borrowed_at else None": a datetime is always truthy.
to_dict(book) ==
    [isbn |-> book.isbn, title |-> book.title, author |-> book.author,
     added_at |-> isoformat(book.added_at),
     borrower |-> book.borrower,
     borrowed_at |-> IF book.borrowed_at # None
                     THEN Some(isoformat(book.borrowed_at[1]))
                     ELSE None]

\* _from_dict() that reads the borrower and forgets when the loan was made
from_dict_without_stamp(data) ==
    [isbn |-> data.isbn, title |-> data.title, author |-> data.author,
     added_at |-> fromisoformat(data.added_at),
     borrower |-> data.borrower,
     borrowed_at |-> None]

\* data.get("borrowed_at") is truthy for every ISO string (never empty).
from_dict(data) ==
    [isbn |-> data.isbn, title |-> data.title, author |-> data.author,
     added_at |-> fromisoformat(data.added_at),
     borrower |-> data.borrower,
     borrowed_at |-> IF data.borrowed_at # None
                     THEN Some(fromisoformat(data.borrowed_at[1]))
                     ELSE None]

\* LibraryStorage.__init__ / _ensure_file: an absent file is created as "[]"
ensure_file(exists, f) == IF exists THEN f ELSE <<>>

load_books(f) == [i \in 1..Len(f) |-> from_dict(f[i])]

save_books(bookseq) == [i \in 1..Len(bookseq) |-> to_dict(bookseq[i])]

-----------------------------------------------------------------------------
(* The dict of app/repository.py.  A repository state is a record          *)
(*   [books |-> entries, heap |-> objects, file |-> stored array]          *)

Keys(bks) == {bks[i].key : i \in 1..Len(bks)}

KeyPos(bks, key) == CHOOSE i \in 1..Len(bks) : bks[i].key = key

\* d[key] = obj: a new key is appended, an existing key keeps its position
dict_set(bks, key, ref) ==
    IF key \in Keys(bks)
    THEN [bks EXCEPT ![KeyPos(bks, key)].ref = ref]
    ELSE Append(bks, [key |-> key, ref |-> ref])

\* del d[key]
dict_del(bks, key) == SelectSeq(bks, LAMBDA e : e.key # key)

\* the distinct references of the dict in order of first use
RECURSIVE LiveRefs(_, _)
LiveRefs(bks, acc) ==
    IF bks = <<>> THEN acc
    ELSE LiveRefs(Tail(bks),
                  IF \E j \in 1..Len(acc) : acc[j] = Head(bks).ref
                  THEN acc ELSE Append(acc, Head(bks).ref))

\* Object identity matters only up to renaming: objects no entry refers to
\* are dropped and the others are numbered in order of first use.
Canon(bks, hp) ==
    LET live == LiveRefs(bks, <<>>)
        idx(r) == CHOOSE j \in 1..Len(live) : live[j] = r
    IN  [books |-> [i \in 1..Len(bks) |-> [key |-> bks[i].key, ref |-> idx(bks[i].ref)]],
         heap  |-> [j \in 1..Len(live) |-> hp[live[j]]]]

\* self._books.values()
Values(bks, hp) == [i \in 1..Len(bks) |-> hp[bks[i].ref]]


-----------------------------------------------------------------------------
(* app/repository.py.  Every operation maps a repository state to          *)
(*   [st |-> the state it leaves, err |-> "ok" or the error it raised]      *)

\* _persist() that keeps the records of the file whose ISBN the dict lacks
persist_merged(st) ==
    LET mine == save_books(Values(st.books, st.heap))
    IN  [st EXCEPT !.file = mine \o SelectSeq(st.file,
                                LAMBDA d : \A i \in 1..Len(mine) : mine[i].isbn # d.isbn)]

\* LibraryRepository._persist
persist(st) == [st EXCEPT !.file = save_books(Values(st.books, st.heap))]

\* LibraryRepository.__init__ / _load: self._books[book.isbn] = book
RECURSIVE load_into(_, _, _)
load_into(bks, loaded, i) ==
    IF i > Len(loaded) THEN bks
    ELSE load_into(dict_set(bks, loaded[i].isbn, i), loaded, i + 1)

load(f) ==
    LET loaded == load_books(f)
        c == Canon(load_into(<<>>, loaded, 1), loaded)
    IN  [books |-> c.books, heap |-> c.heap, file |-> f]

\* LibraryRepository.get: ret is the reference of the book found
get(st, isbn) ==
    LET key == normalize_isbn(isbn)
    IN  IF key \notin Keys(st.books)
        THEN [err |-> "NotFound", ret |-> 0]
        ELSE [err |-> "ok", ret |-> st.books[KeyPos(st.books, key)].ref]

\* LibraryRepository.add, given a new Book object
add(st, book, save) ==
    LET key == normalize_isbn(book.isbn)
    IN  IF key \in Keys(st.books)
        THEN [st |-> st, err |-> "AlreadyExists"]
        ELSE LET hp  == Append(st.heap, [book EXCEPT !.isbn = key])
                 st1 == [st EXCEPT !.heap = hp,
                                   !.books = dict_set(st.books, key, Len(hp))]
             IN  [st |-> IF save THEN persist(st1) ELSE st1, err |-> "ok"]

\* remove() that persists whatever autosave says
remove_saving(st, isbn, save) ==
    LET key == normalize_isbn(isbn)
    IN  IF key \notin Keys(st.books)
        THEN [st |-> st, err |-> "NotFound"]
        ELSE LET c   == Canon(dict_del(st.books, key), st.heap)
                 st1 == [st EXCEPT !.books = c.books, !.heap = c.heap]
             IN  [st |-> persist(st1), err |-> "ok"]

\* LibraryRepository.remove
remove(st, isbn, save) ==
    LET key == normalize_isbn(isbn)
    IN  IF key \notin Keys(st.books)
        THEN [st |-> st, err |-> "NotFound"]
        ELSE LET c   == Canon(dict_del(st.books, key), st.heap)
                 st1 == [st EXCEPT !.books = c.books, !.heap = c.heap]
             IN  [st |-> IF save THEN persist(st1) ELSE st1, err |-> "ok"]

\* update() that stores the book under its key whether or not the key exists
update_upsert(st, ref, save) ==
    LET key == normalize_isbn(st.heap[ref].isbn)
        hp  == [st.heap EXCEPT ![ref].isbn = key]
        c   == Canon(dict_set(st.books, key, ref), hp)
        st1 == [st EXCEPT !.books = c.books, !.heap = c.heap]
    IN  [st |-> IF save THEN persist(st1) ELSE st1, err |-> "ok"]

\* LibraryRepository.update, given (a reference to) an object of the heap
update(st, ref, save) ==
    LET key == normalize_isbn(st.heap[ref].isbn)
    IN  IF key \notin Keys(st.books)
        THEN [st |-> st, err |-> "NotFound"]
        ELSE LET hp  == [st.heap EXCEPT ![ref].isbn = key]
                 c   == Canon(dict_set(st.books, key, ref), hp)
                 st1 == [st EXCEPT !.books = c.books, !.heap = c.heap]
             IN  [st |-> IF save THEN persist(st1) ELSE st1, err |-> "ok"]

\* LibraryRepository.save_all, given a list of new Book objects:
\* {normalize_isbn(book.isbn): book for book in books}, then _persist()
RECURSIVE dict_of(_, _, _)
dict_of(bks, bookseq, i) ==
    IF i > Len(bookseq) THEN bks
    ELSE dict_of(dict_set(bks, normalize_isbn(bookseq[i].isbn), i), bookseq, i + 1)

\* save_all() that replaces the mapping and leaves the data file alone
save_all_unsaved(st, bookseq) ==
    LET c == Canon(dict_of(<<>>, bookseq, 1), bookseq)
    IN  [st EXCEPT !.books = c.books, !.heap = c.heap]

save_all(st, bookseq) ==
    LET c == Canon(dict_of(<<>>, bookseq, 1), bookseq)
    IN  persist([st EXCEPT !.books = c.books, !.heap = c.heap])

\* LibraryRepository.snapshot
snapshot(st) == Values(st.books, st.heap)

\* sorted(books, key=added_at): a stable sort, here by insertion from the left
RECURSIVE insert_sorted(_, _)
insert_sorted(sorted, book) ==
    IF sorted = <<>> THEN <<book>>
    ELSE IF sorted[Len(sorted)].added_at <= book.added_at THEN Append(sorted, book)
    ELSE Append(insert_sorted(SubSeq(sorted, 1, Len(sorted) - 1), book),
                sorted[Len(sorted)])

RECURSIVE sorted_by_added_at(_, _, _)
sorted_by_added_at(bookseq, i, acc) ==
    IF i > Len(bookseq) THEN acc
    ELSE sorted_by_added_at(bookseq, i + 1, insert_sorted(acc, bookseq[i]))

\* LibraryRepository.list_books
repository_list_books(st) == sorted_by_added_at(snapshot(st), 1, <<>>)

\* LibraryRepository.find_available
find_available(st) == SelectSeq(snapshot(st), is_available)

\* LibraryRepository.find_by_author
find_by_author(st, author) ==
    LET author_lower == lower(author)
    IN  SelectSeq(snapshot(st), LAMBDA book : contains(author_lower, lower(book.author)))


-----------------------------------------------------------------------------
(* app/services.py.  Every operation maps a repository state to            *)
(*   [st |-> state left, err |-> "ok" or the error raised, ret |-> books]   *)

\* LibraryService.register_book
register_book(st, isbn, title, author, t, save) ==
    LET book == Book(normalize_isbn(isbn), strip(title), strip(author), t)
        r == add(st, book, save)
    IN  [st |-> r.st, err |-> r.err,
         ret |-> IF r.err = "ok" THEN <<r.st.heap[Len(r.st.heap)]>> ELSE <<>>]

\* LibraryService.remove_book
remove_book(st, isbn, save) ==
    LET r == remove(st, isbn, save)
    IN  [st |-> r.st, err |-> r.err, ret |-> <<>>]

\* LibraryService.get_book
get_book(st, isbn) ==
    LET g == get(st, isbn)
    IN  [st |-> st, err |-> g.err,
         ret |-> IF g.err = "ok" THEN <<st.heap[g.ret]>> ELSE <<>>]

\* LibraryService.list_books
list_books(st, available_only) ==
    IF available_only THEN find_available(st) ELSE repository_list_books(st)

\* LibraryService.search_by_author
search_by_author(st, author) == find_by_author(st, author)

\* LibraryService.search_by_title
search_by_title(st, fragment) ==
    LET fragment_lower == lower(fragment)
    IN  SelectSeq(snapshot(st), LAMBDA book : contains(fragment_lower, lower(book.title)))

\* Counter(authors), a dict: one entry for each author in order of first
\* encounter, with the number of times the author was encountered
RECURSIVE Counter(_, _, _)
Counter(authors, i, acc) ==
    IF i > Len(authors) THEN acc
    ELSE IF \E k \in 1..Len(acc) : acc[k].author = authors[i]
    THEN Counter(authors, i + 1,
                 [acc EXCEPT ![CHOOSE k \in 1..Len(acc) : acc[k].author = authors[i]].count
                                = @ + 1])
    ELSE Counter(authors, i + 1, Append(acc, [author |-> authors[i], count |-> 1]))

\* LibraryService.usage_summary
usage_summary(st) ==
    LET authors == [i \in 1..Len(st.books) |-> snapshot(st)[i].author]
    IN  Counter(authors, 1, <<>>)

\* borrow_book() without the availability check
borrow_book_overwrites(st, isbn, borrower, t, save) ==
    LET g == get(st, isbn)
    IN  IF g.err # "ok" THEN [st |-> st, err |-> g.err, ret |-> <<>>]
        ELSE LET st1 == [st EXCEPT !.heap[g.ret] = checkout(@, borrower, t)]
                 u == update(st1, g.ret, save)
             IN  [st |-> u.st, err |-> u.err, ret |-> <<>>]

\* LibraryService.borrow_book: the book fetched is the object the dict holds,
\* and checkout() changes it in place before update() is called
borrow_book(st, isbn, borrower, t, save) ==
    LET g == get(st, isbn)
    IN  IF g.err # "ok" THEN [st |-> st, err |-> g.err, ret |-> <<>>]
        ELSE IF ~is_available(st.heap[g.ret])
        THEN [st |-> st, err |-> "Unavailable", ret |-> <<>>]
        ELSE LET st1 == [st EXCEPT !.heap[g.ret] = checkout(@, borrower, t)]
                 u == update(st1, g.ret, save)
             IN  [st |-> u.st, err |-> u.err,
                  ret |-> IF u.err = "ok"
                          THEN <<[st1.heap[g.ret] EXCEPT
                                    !.isbn = normalize_isbn(st1.heap[g.ret].isbn)]>>
                          ELSE <<>>]

\* LibraryService.return_book
return_book(st, isbn, save) ==
    LET g == get(st, isbn)
    IN  IF g.err # "ok" THEN [st |-> st, err |-> g.err, ret |-> <<>>]
        ELSE IF is_available(st.heap[g.ret])
        THEN [st |-> st, err |-> "Unavailable", ret |-> <<>>]
        ELSE LET st1 == [st EXCEPT !.heap[g.ret] = checkin(@)]
                 u == update(st1, g.ret, save)
             IN  [st |-> u.st, err |-> u.err,
                  ret |-> IF u.err = "ok"
                          THEN <<[st1.heap[g.ret] EXCEPT
                                    !.isbn = normalize_isbn(st1.heap[g.ret].isbn)]>>
                          ELSE <<>>]

\* LibraryService.import_catalog: stamps[i] is the clock read for entry i
import_catalog(st, entries, stamps) ==
    LET imported == [i \in 1..Len(entries) |->
                        Book(normalize_isbn(entries[i].isbn), strip(entries[i].title),
                             strip(entries[i].author), stamps[i])]
    IN  [st |-> save_all(st, imported), err |-> "ok", ret |-> imported]

\* LibraryService.reset_catalog
reset_catalog(st) == [st |-> save_all(st, <<>>), err |-> "ok", ret |-> <<>>]

\* normalize_isbn(entry["isbn"]) for each entry of default_catalog()
default_isbns == [i \in 1..Len(default_catalog) |-> normalize_isbn(default_catalog[i].isbn)]

\* missing_entries that takes every seed entry, present or not
missing_entries_all(st) ==
    [i \in 1..Len(default_catalog) |->
        [default_catalog[i] EXCEPT !.isbn = default_isbns[i]]]

\* LibraryService._initialize_defaults: the seed entries that are missing
missing_entries(st) ==
    LET existing_isbns == {st.heap[st.books[i].ref].isbn : i \in 1..Len(st.books)}
        normalized == [i \in 1..Len(default_catalog) |->
                         [default_catalog[i] EXCEPT !.isbn = default_isbns[i]]]
    IN  SelectSeq(normalized, LAMBDA entry : entry.isbn \notin existing_isbns)

\* ... and the loop that adds them; an error raised by add() ends it
\* (ret collects the books added)
RECURSIVE add_missing(_, _, _, _, _, _)
add_missing(st, missing, stamps, i, save, added) ==
    IF i > Len(missing) THEN [st |-> st, err |-> "ok", ret |-> added]
    ELSE LET book == Book(missing[i].isbn, missing[i].title, missing[i].author, stamps[i])
             r == add(st, book, save)
         IN  IF r.err # "ok" THEN [st |-> r.st, err |-> r.err, ret |-> added]
             ELSE add_missing(r.st, missing, stamps, i + 1, save, Append(added, book))

\* _initialize_defaults() that seeds an empty catalog only
initialize_defaults_when_empty(st, stamps, save) ==
    IF st.books = <<>>
    THEN add_missing(st, missing_entries(st), stamps, 1, save, <<>>)
    ELSE [st |-> st, err |-> "ok", ret |-> <<>>]

initialize_defaults(st, stamps, save) ==
    add_missing(st, missing_entries(st), stamps, 1, save, <<>>)

-----------------------------------------------------------------------------
(* app/cli.py.  An argument vector is a record                              *)
(*   [command, config_file, isbn, title, author, borrower, fragment,        *)
(*    available, payload]                                                   *)
(* in which config_file is None (no --config) or Some of                    *)
(* [exists, autosave], the named file and the override it holds, and        *)
(* payload is None or Some of [exists, entries], the file named to import.  *)

\* load_config() with LIBAPP_AUTOSAVE unset
load_config == [autosave |-> TRUE]

\* load_overrides
load_overrides(config_file) ==
    IF config_file = None THEN [err |-> "ok", autosave |-> None]
    ELSE IF ~config_file[1].exists THEN [err |-> "FileNotFoundError", autosave |-> None]
    ELSE [err |-> "ok", autosave |-> config_file[1].autosave]

\* create_service, up to LibraryService(config=base_config): the
\* configuration of the service, or the error load_overrides raised
service_config(args) ==
    LET base_config == load_config
        o == load_overrides(args.config_file)
    IN  [err |-> o.err,
         autosave |-> IF o.err = "ok" /\ o.autosave # None THEN o.autosave[1]
                      ELSE base_config.autosave]

\* the body of the try statement of main: the service call of the command
dispatch(st, args, stamps, save) ==
    CASE args.command = "add" ->
           register_book(st, args.isbn, args.title, args.author, stamps[1], save)
      [] args.command = "list" ->
           [st |-> st, err |-> "ok", ret |-> list_books(st, args.available)]
      [] args.command = "borrow" ->
           borrow_book(st, args.isbn, args.borrower, stamps[1], save)
      [] args.command = "return" -> return_book(st, args.isbn, save)
      [] args.command = "search" ->
           [st |-> st, err |-> "ok", ret |-> search_by_title(st, args.fragment)]
      [] args.command = "author" ->
           [st |-> st, err |-> "ok", ret |-> search_by_author(st, args.author)]
      [] args.command = "summary" -> [st |-> st, err |-> "ok", ret |-> <<>>]
      [] args.command = "import" ->
           IF ~args.payload[1].exists
           THEN [st |-> st, err |-> "FileNotFoundError", ret |-> <<>>]
           ELSE import_catalog(st, args.payload[1].entries, stamps)
      [] args.command = "reset" -> reset_catalog(st)

\* except clauses that answer BookNotFoundError as BookUnavailableError
handlers_merged(err) ==
    CASE err = "ok" -> [how |-> "return", code |-> 0]
      [] err = "FileNotFoundError" -> [how |-> "parser.error", code |-> 2]
      [] err = "AlreadyExists" -> [how |-> "return", code |-> 2]
      [] err \in {"Unavailable", "NotFound"} -> [how |-> "return", code |-> 3]

\* the except clauses of main and its last line: how main ends ("return",
\* or "parser.error", which leaves through SystemExit) and the exit code
handlers(err) ==
    CASE err = "ok" -> [how |-> "return", code |-> 0]
      [] err = "FileNotFoundError" -> [how |-> "parser.error", code |-> 2]
      [] err = "AlreadyExists" -> [how |-> "return", code |-> 2]
      [] err = "Unavailable" -> [how |-> "return", code |-> 3]
      [] err = "NotFound" -> [how |-> "return", code |-> 4]

\* an exception raised outside the try statement leaves main unhandled and
\* the interpreter exits with code 1
unhandled == [how |-> "unhandled", code |-> 1]

\* the number of clock reads the service call of a command makes
clock_reads(args) ==
    CASE args.command \in {"add", "borrow"} -> 1
      [] args.command = "import" /\ args.payload[1].exists -> Len(args.payload[1].entries)
      [] OTHER -> 0

-----------------------------------------------------------------------------
(* Inputs *)

Seed1 == default_catalog[1].isbn

IsbnInputs ==
    { <<"9","7","8","-","0","1","4","3","1","2","7","7","4","1">>,  \* Seed1, hyphenated
      <<"j">>,                                                    \* lower case
      <<"j_caron">> }                                             \* U+01F0

Borrowers == {"Alice", "Bob"}

\* the (isbn, title, author) triples handed to register_book
RegisterInputs ==
    { [isbn |-> <<"9","7","8","-","0","1","4","3","1","2","7","7","4","1">>,
       title |-> <<" ","D","u","n","e"," ">>,
       author |-> <<"P","a","u","l","o"," ","C","o","e","l","h","o">>],
      [isbn |-> <<"j">>, title |-> <<" ","D","u","n","e"," ">>,
       author |-> <<"P","a","u","l","o"," ","C","o","e","l","h","o">>],
      [isbn |-> <<"j_caron">>, title |-> <<" ","D","u","n","e"," ">>,
       author |-> <<"P","a","u","l","o"," ","C","o","e","l","h","o">>],
      [isbn |-> <<"j_caron">>, title |-> <<" ">>, author |-> <<"J",".","K",".">>] }

EntryJCaron ==
    [isbn |-> <<"j_caron">>, title |-> <<"E","m","m","a">>,
     author |-> <<"J","a","n","e"," ","A","u","s","t","e","n">>]

EntryJ ==
    [isbn |-> <<"j">>, title |-> <<" ","D","u","n","e"," ">>,
     author |-> <<"J","a","n","e"," ","A","u","s","t","e","n">>]

EntrySeed1 ==
    [isbn |-> <<"9","7","8","-","0","1","4","3","1","2","7","7","4","1">>,
     title |-> <<"E","m","m","a">>,
     author |-> <<"J","a","n","e"," ","A","u","s","t","e","n">>]

EntryLists ==
    { <<EntryJCaron>>,
      <<EntryJCaron, EntryJ>>,
      <<EntryJ, EntrySeed1, [EntryJ EXCEPT !.title = <<"E","m","m","a">>]>> }

\* The values k successive reads of the clock can return when the first
\* read is made at time lo or later: between two reads the clock stands
\* still or ticks once (only the order of time stamps is ever observed).
ClockReads ==
    [k \in 0..5 |-> [lo \in 0..MaxTime |->
        {ts \in [1..k -> lo..MaxTime] :
            /\ k > 0 => ts[1] <= lo + 1
            /\ \A i \in 1..k-1 : ts[i] <= ts[i+1] /\ ts[i+1] <= ts[i] + 1}]]

Stamps(k) == ClockReads[k][now]

Clock(ts) == IF ts = <<>> THEN now ELSE ts[Len(ts)]

-----------------------------------------------------------------------------
(* The state machine *)

State == [books |-> books, heap |-> heap, file |-> file]

\* no second service runs on the data file
NoPeer == [books |-> <<>>, heap |-> <<>>]

\* no call is in flight: every call runs from start to end in one step
NoPending == <<>>

\* the run makes its calls one after the other on one service
Sequential == peer = NoPeer /\ pending = NoPending

\* the data file holds exactly what the repository holds in memory
Synced(st) == st.file = save_books(snapshot(st))

\* A call: its operation and arguments, whether the data file was in step
\* with the memory when it was made, the error it raised ("ok" if none) and
\* the books it returned
Call(op, isbn, entries, r) ==
    [op |-> op, isbn |-> isbn, entries |-> entries, synced |-> Synced(State),
     err |-> r.err, ret |-> r.ret]

\* LibraryService.__init__ on the data file: LibraryStorage.__init__ and
\* LibraryRepository.__init__ ...
opened(exists, f) == load(ensure_file(exists, f))

\* ... then _initialize_defaults
construct(st0, stamps, save) == initialize_defaults(st0, stamps, save)

\* The first service has been constructed on an absent data file, at time 0
Started(n) ==
    /\ Sequential
    /\ fileExists = TRUE
    /\ alive = TRUE
    /\ autosave \in BOOLEAN
    /\ now = 0
    /\ LET r == construct(opened(FALSE, <<>>), [i \in 1..5 |-> 0], autosave)
       IN  /\ books = r.st.books
           /\ heap = r.st.heap
           /\ file = r.st.file
           /\ last = [op |-> "construct", isbn |-> <<>>, entries |-> <<>>,
                      synced |-> TRUE, err |-> r.err, ret |-> r.ret]
    /\ calls = 0
    /\ budget = n

Init == Started(MaxCalls)

\* one more call is made, within the budget of the run, from start to end
Counted ==
    /\ calls < budget
    /\ calls' = calls + 1
    /\ budget' = budget
    /\ UNCHANGED <<peer, pending>>

Leaves(r) ==
    /\ books' = r.st.books
    /\ heap' = r.st.heap
    /\ file' = r.st.file

\* a new process constructs the service on the data file as it stands
Construct(save) ==
    /\ Counted
    /\ LET st0 == opened(fileExists, file)
       IN  \E ts \in Stamps(Len(missing_entries(st0))) :
             LET r == construct(st0, ts, save)
             IN
             /\ Leaves(r)
             /\ fileExists' = TRUE
             /\ alive' = (r.err = "ok")
             /\ autosave' = save
             /\ now' = Clock(ts)
             /\ last' = Call("construct", <<>>, <<>>, r)

RegisterBook(isbn, title, author) ==
    /\ alive
    /\ Counted
    /\ \E ts \in Stamps(1) :
         LET r == register_book(State, isbn, title, author, ts[1], autosave)
         IN  /\ Leaves(r)
             /\ now' = Clock(ts)
             /\ last' = Call("register", isbn, <<>>, r)
    /\ UNCHANGED <<fileExists, alive, autosave>>

RemoveBook(isbn) ==
    /\ alive
    /\ Counted
    /\ LET r == remove_book(State, isbn, autosave)
       IN  /\ Leaves(r)
           /\ last' = Call("remove", isbn, <<>>, r)
    /\ UNCHANGED <<fileExists, alive, autosave, now>>

BorrowBook(isbn, borrower) ==
    /\ alive
    /\ Counted
    /\ \E ts \in Stamps(1) :
         LET r == borrow_book(State, isbn, borrower, ts[1], autosave)
         IN  /\ Leaves(r)
             /\ now' = IF r.st.heap = heap THEN now ELSE Clock(ts)
             /\ last' = Call("borrow", isbn, <<>>, r)
    /\ UNCHANGED <<fileExists, alive, autosave>>

ReturnBook(isbn) ==
    /\ alive
    /\ Counted
    /\ LET r == return_book(State, isbn, autosave)
       IN  /\ Leaves(r)
           /\ last' = Call("return", isbn, <<>>, r)
    /\ UNCHANGED <<fileExists, alive, autosave, now>>

ImportCatalog(entries) ==
    /\ alive
    /\ Counted
    /\ \E ts \in Stamps(Len(entries)) :
         LET r == import_catalog(State, entries, ts)
         IN  /\ Leaves(r)
             /\ now' = Clock(ts)
             /\ last' = Call("import", <<>>, entries, r)
    /\ UNCHANGED <<fileExists, alive, autosave>>

ResetCatalog ==
    /\ alive
    /\ Counted
    /\ LET r == reset_catalog(State)
       IN  /\ Leaves(r)
           /\ last' = Call("reset", <<>>, <<>>, r)
    /\ UNCHANGED <<fileExists, alive, autosave, now>>

Next ==
    \/ \E save \in BOOLEAN : Construct(save)
    \/ \E e \in RegisterInputs : RegisterBook(e.isbn, e.title, e.author)
    \/ \E isbn \in IsbnInputs : RemoveBook(isbn)
    \/ \E isbn \in IsbnInputs, borrower \in Borrowers : BorrowBook(isbn, borrower)
    \/ \E isbn \in IsbnInputs : ReturnBook(isbn)
    \/ \E entries \in EntryLists : ImportCatalog(entries)
    \/ ResetCatalog

Spec == Init /\ [][Next]_vars

\* the same machine, run for one call more
SpecLong == Started(MaxCalls + 1) /\ [][Next]_vars

\* The calls that lead from the first construction, with autosave enabled,
\* to a service whose dict holds one Book object under two keys: a book is
\* imported under U+01F0, the service is constructed again, a book is
\* registered under U+01F0 and the book under U+01F0 is borrowed.  The
\* clock stands still meanwhile.
AliasedCalls ==
    LET s0 == construct(opened(FALSE, <<>>), [i \in 1..5 |-> 0], TRUE).st
        s1 == import_catalog(s0, <<EntryJCaron>>, <<0>>).st
        s2 == construct(opened(TRUE, s1.file), [i \in 1..5 |-> 0], TRUE).st
        s3 == register_book(s2, <<"j_caron">>, <<" ","D","u","n","e"," ">>,
                            <<"P","a","u","l","o"," ","C","o","e","l","h","o">>,
                            0, TRUE).st
    IN  [before |-> s3, r |-> borrow_book(s3, <<"j_caron">>, "Alice", 0, TRUE)]

\* the service after those calls
Aliased(n) ==
    /\ Sequential
    /\ fileExists = TRUE
    /\ alive = TRUE
    /\ autosave = TRUE
    /\ now = 0
    /\ books = AliasedCalls.r.st.books
    /\ heap = AliasedCalls.r.st.heap
    /\ file = AliasedCalls.r.st.file
    /\ last = [op |-> "borrow", isbn |-> <<"j_caron">>, entries |-> <<>>,
               synced |-> Synced(AliasedCalls.before),
               err |-> AliasedCalls.r.err, ret |-> AliasedCalls.r.ret]
    /\ calls = 0
    /\ budget = n

\* the same machine, started from there
SpecAliased == Aliased(MaxCalls) /\ [][Next]_vars

\* ... and run for one call more
SpecAliasedLong == Aliased(MaxCalls + 1) /\ [][Next]_vars

-----------------------------------------------------------------------------
(* The command line: every invocation is a process that constructs the     *)
(* service on the data file, makes one call and exits.                      *)

\* main(argv) on the data file as it stands: create_service is called
\* before the try statement is entered
main(exists, f, args, stamps0, stamps) ==
    LET cfg == service_config(args)
    IN  IF cfg.err # "ok"
        THEN [exists |-> exists, file |-> f, err |-> cfg.err, ret |-> <<>>,
              end |-> unhandled]
        ELSE LET c == construct(opened(exists, f), stamps0, cfg.autosave)
             IN  IF c.err # "ok"
                 THEN [exists |-> TRUE, file |-> c.st.file, err |-> c.err,
                       ret |-> <<>>, end |-> unhandled]
                 ELSE LET r == dispatch(c.st, args, stamps, cfg.autosave)
                      IN  [exists |-> TRUE, file |-> r.st.file, err |-> r.err,
                           ret |-> r.ret, end |-> handlers(r.err)]

NoArgs ==
    [command |-> "", config_file |-> None, isbn |-> <<>>, title |-> <<>>,
     author |-> <<>>, borrower |-> "", fragment |-> <<>>, available |-> FALSE,
     payload |-> None]

\* the file named to import: a list of entries, or no such file
ImportFiles ==
    { Some([exists |-> TRUE, entries |-> <<EntryJCaron>>]),
      Some([exists |-> TRUE, entries |-> <<EntryJCaron, EntryJ>>]),
      Some([exists |-> FALSE, entries |-> <<>>]) }

Commands ==
    {[NoArgs EXCEPT !.command = "add", !.isbn = e.isbn, !.title = e.title,
                    !.author = e.author] : e \in {x \in RegisterInputs : x.title # <<" ">>}}
    \cup {[NoArgs EXCEPT !.command = "borrow", !.isbn = i, !.borrower = "Alice"] :
            i \in IsbnInputs}
    \cup {[NoArgs EXCEPT !.command = "return", !.isbn = i] : i \in IsbnInputs}
    \cup {[NoArgs EXCEPT !.command = "list", !.available = a] : a \in BOOLEAN}
    \cup {[NoArgs EXCEPT !.command = "search", !.fragment = <<"d","U">>],
          [NoArgs EXCEPT !.command = "author", !.author = <<"a","U","s","t">>],
          [NoArgs EXCEPT !.command = "summary"],
          [NoArgs EXCEPT !.command = "reset"]}
    \cup {[NoArgs EXCEPT !.command = "import", !.payload = p] : p \in ImportFiles}

\* every command without --config; one invocation of each command with a
\* --config file that does not exist; a borrow and an add with autosave
\* overridden
ArgVectors ==
    Commands
    \cup {[c EXCEPT !.config_file = Some([exists |-> FALSE, autosave |-> None])] :
            c \in {x \in Commands : x.isbn \in {<<>>, <<"j">>} /\ ~x.available
                                     /\ (x.payload = None \/ ~x.payload[1].exists)}}
    \cup {[c EXCEPT !.config_file = Some([exists |-> TRUE, autosave |-> Some(FALSE)])] :
            c \in {x \in Commands : x.isbn = <<"j">> /\ x.command \in {"add", "borrow"}}}

\* the values k reads of the clock return in a process that reads a clock
\* too coarse to tick while it runs
CoarseReads(k, lo) == {ts \in ClockReads[k][lo] : \A i \in 1..k : ts[i] = ts[1]}

\* no invocation has been made and the data file does not exist
Installed(n) ==
    /\ Sequential
    /\ fileExists = FALSE
    /\ file = <<>>
    /\ alive = FALSE
    /\ autosave = TRUE
    /\ books = <<>>
    /\ heap = <<>>
    /\ now = 0
    /\ last = [op |-> "none", args |-> NoArgs, err |-> "ok", ret |-> <<>>,
               end |-> handlers("ok")]
    /\ calls = 0
    /\ budget = n

\* python -m app.cli argv: the process is gone when main has ended, and
\* what it leaves is the data file
Main(args) ==
    /\ Counted
    /\ LET st0 == opened(fileExists, file)
           k0 == IF service_config(args).err = "ok" THEN Len(missing_entries(st0)) ELSE 0
       IN  \E ts0 \in CoarseReads(k0, now) :
           \E ts \in CoarseReads(clock_reads(args), Clock(ts0)) :
             LET m == main(fileExists, file, args, ts0, ts)
             IN  /\ fileExists' = m.exists
                 /\ file' = m.file
                 /\ now' = IF ts = <<>> THEN Clock(ts0) ELSE ts[Len(ts)]
                 /\ last' = [op |-> "main", args |-> args, err |-> m.err,
                             ret |-> m.ret, end |-> m.end]
    /\ alive' = FALSE
    /\ books' = <<>>
    /\ heap' = <<>>
    /\ UNCHANGED autosave

NextCli == \E args \in ArgVectors : Main(args)

SpecCli == Installed(MaxInvocations) /\ [][NextCli]_vars


-----------------------------------------------------------------------------
(* Vocabulary of the properties *)

\* the book the dict holds under a key
BookAt(st, key) == st.heap[st.books[KeyPos(st.books, key)].ref]

Holds(st, isbn) == normalize_isbn(isbn) \in Keys(st.books)

\* the catalog as the set of its books' ISBNs
Isbns(st) == {st.heap[st.books[i].ref].isbn : i \in 1..Len(st.books)}

\* a step leaves the catalog in memory and the data file as they were
Untouched == books' = books /\ heap' = heap /\ file' = file

-----------------------------------------------------------------------------
\* C1: in every reachable state, borrow_book on a book that is borrowed fails
\* with Unavailable and leaves the book (borrower, borrowed_at), the rest of
\* the catalog and the data file exactly as they were.
C1_BorrowOfBorrowedFails ==
    [][ ( /\ last'.op = "borrow"
          /\ Holds(State, last'.isbn)
          /\ ~is_available(BookAt(State, normalize_isbn(last'.isbn))) )
        => (last'.err = "Unavailable" /\ Untouched) ]_vars

\* a second borrow has been refused and the book still has its borrower
C1_Witness ==
    /\ last.op = "borrow"
    /\ last.err = "Unavailable"
    /\ BookAt(State, normalize_isbn(last.isbn)).borrower # None

\* C2 (as claimed): return_book on a book that exists and is not borrowed
\* fails with Unavailable and changes nothing; on a borrowed book it succeeds
\* and clears borrower and borrowed_at.
C2_ReturnClaim ==
    [][ (last'.op = "return" /\ Holds(State, last'.isbn))
        => IF is_available(BookAt(State, normalize_isbn(last'.isbn)))
           THEN last'.err = "Unavailable" /\ Untouched
           ELSE /\ last'.err = "ok"
                /\ Holds(State', last'.isbn)
                /\ BookAt(State', normalize_isbn(last'.isbn)).borrower = None
                /\ BookAt(State', normalize_isbn(last'.isbn)).borrowed_at = None ]_vars

\* C3: for every book of the catalog, in every reachable state, borrower is
\* absent iff borrowed_at is absent, and the book is available exactly then.
C3_BorrowerIffBorrowedAt ==
    \A i \in 1..Len(heap) :
        /\ (heap[i].borrower = None) <=> (heap[i].borrowed_at = None)
        /\ is_available(heap[i]) <=> (heap[i].borrowed_at = None)

\* a service constructed from the data file holds a borrowed book next to
\* an available one
C3_Witness ==
    /\ last.op = "construct"
    /\ \E i \in 1..Len(heap) : heap[i].borrowed_at # None
    /\ \E i \in 1..Len(heap) : heap[i].borrowed_at = None

\* C4 (as claimed): register_book with an ISBN whose normalized form is a
\* key of the catalog fails with AlreadyExists and changes nothing.
C4_RegisterDuplicateClaim ==
    [][ (last'.op = "register" /\ Holds(State, last'.isbn))
        => (last'.err = "AlreadyExists" /\ Untouched) ]_vars

\* C5 (as claimed): a book just registered under s1, or imported by the last
\* entry of a list with ISBN s1, is the book get, borrow and remove address
\* with any s2 that has the normalized form of s1, and register with s2 fails
\* with AlreadyExists.
C5_SameNormalFormClaim ==
    LET s1 == IF last.op = "register" THEN last.isbn
              ELSE last.entries[Len(last.entries)].isbn
        made == IF last.op = "register" THEN last.ret[1]
                ELSE last.ret[Len(last.ret)]
    IN  ( \/ last.op = "register" /\ last.err = "ok"
          \/ last.op = "import" /\ last.entries # <<>> )
        => \A s2 \in IsbnInputs \cup {s1} :
             normalize_isbn(s2) = normalize_isbn(s1)
             => /\ get_book(State, s2).err = "ok"
                /\ get_book(State, s2).ret[1].title = made.title
                /\ borrow_book(State, s2, "Alice", now, autosave).err = "ok"
                /\ remove_book(State, s2, autosave).err = "ok"
                /\ register_book(State, s2, <<"X">>, <<"Y">>, now, autosave).err
                     = "AlreadyExists"

\* C6: get, remove and update of the repository, and get_book, remove_book,
\* borrow_book and return_book of the service, called in any reachable state
\* with an ISBN whose normalized form is no key of the catalog, fail with
\* NotFound and leave the catalog and the data file as they were; update
\* does not insert the book.
C6_MissingIsbnNotFound ==
    \A isbn \in IsbnInputs, save \in BOOLEAN :
        ~Holds(State, isbn)
        => LET stranger == Book(isbn, <<"X">>, <<"Y">>, now)
               st1 == [State EXCEPT !.heap = Append(@, stranger)]
               upd == update(st1, Len(st1.heap), save)
           IN  /\ get(State, isbn).err = "NotFound"
               /\ remove(State, isbn, save) = [st |-> State, err |-> "NotFound"]
               /\ upd.err = "NotFound"
               /\ upd.st.books = books /\ upd.st.file = file
               /\ get_book(State, isbn).err = "NotFound"
               /\ remove_book(State, isbn, save).err = "NotFound"
               /\ remove_book(State, isbn, save).st = State
               /\ \A b \in Borrowers :
                    /\ borrow_book(State, isbn, b, now, save).err = "NotFound"
                    /\ borrow_book(State, isbn, b, now, save).st = State
               /\ return_book(State, isbn, save).err = "NotFound"
               /\ return_book(State, isbn, save).st = State

\* a call with an ISBN the catalog does not hold has ended with NotFound
C6_Witness ==
    /\ last.op \in {"remove", "borrow", "return"}
    /\ last.err = "NotFound"
    /\ ~Holds(State, last.isbn)

\* C7 (as claimed): with autosave enabled, after every call on the service
\* the records of the data file are the books of the catalog, in order.
C7_AutosaveDurableClaim == (alive /\ autosave) => Synced(State)

\* C8: after import_catalog and after reset_catalog the data file holds
\* exactly the catalog now in memory (nothing after a reset), whatever the
\* autosave setting and whether or not earlier changes had been saved.
C8_SaveAllAlwaysWrites ==
    /\ last.op \in {"import", "reset"} => Synced(State)
    /\ last.op = "reset" => (books = <<>> /\ file = <<>>)
    /\ last.op = "import" => (last.entries # <<>> => file # <<>>)

\* an import has been made with autosave disabled while the data file was
\* behind the memory
C8_Witness ==
    /\ last.op = "import"
    /\ ~autosave
    /\ ~last.synced
    /\ file # <<>>

\* C9 (as claimed): after import_catalog(entries) the ISBNs of the catalog
\* are exactly the normalized ISBNs of the entries, and every book is
\* available.
C9_ImportReplacesClaim ==
    last.op = "import"
    => /\ Isbns(State) = {normalize_isbn(last.entries[i].isbn) : i \in 1..Len(last.entries)}
       /\ Keys(books) = {normalize_isbn(last.entries[i].isbn) : i \in 1..Len(last.entries)}
       /\ \A i \in 1..Len(heap) : is_available(heap[i])

\* a seed ISBN has just been removed, with autosave enabled, and the next
\* step constructs a service on the data file
SeedRemovedThenConstructed ==
    /\ last.op = "remove"
    /\ last.err = "ok"
    /\ autosave
    /\ \E i \in 1..Len(default_isbns) : default_isbns[i] = normalize_isbn(last.isbn)
    /\ last'.op = "construct"

-----------------------------------------------------------------------------
(* app/web/app.py and app/web/schemas.py.  A request is a record            *)
(*   [method, path, title, author, available_only, body]                    *)
(* whose path is the sequence of its segments, whose title and author are   *)
(* the optional query parameters and whose body holds the fields of the     *)
(* JSON body: [isbn, title, author, borrower, books].                       *)

BOOKS == <<"b","o","o","k","s">>
SEARCH == <<"s","e","a","r","c","h">>
SUMMARY == <<"s","u","m","m","a","r","y">>
IMPORT == <<"i","m","p","o","r","t">>
CATALOG == <<"c","a","t","a","l","o","g">>
BORROW == <<"b","o","r","r","o","w">>
RETURN == <<"r","e","t","u","r","n">>
HEALTH == <<"h","e","a","l","t","h">>
PARAM == <<"{","}">>

\* the routes create_app registers on the router, in the order of their
\* decorators: method, path pattern, endpoint
routes ==
    << [method |-> "GET",    pattern |-> <<>>,                     endpoint |-> "root"],
       [method |-> "GET",    pattern |-> <<HEALTH>>,               endpoint |-> "health_check"],
       [method |-> "GET",    pattern |-> <<BOOKS>>,                endpoint |-> "list_books"],
       [method |-> "POST",   pattern |-> <<BOOKS>>,                endpoint |-> "create_book"],
       [method |-> "GET",    pattern |-> <<BOOKS, PARAM>>,         endpoint |-> "get_book"],
       [method |-> "DELETE", pattern |-> <<BOOKS, PARAM>>,         endpoint |-> "delete_book"],
       [method |-> "POST",   pattern |-> <<BOOKS, PARAM, BORROW>>, endpoint |-> "borrow_book"],
       [method |-> "POST",   pattern |-> <<BOOKS, PARAM, RETURN>>, endpoint |-> "return_book"],
       [method |-> "GET",    pattern |-> <<BOOKS, SEARCH>>,        endpoint |-> "search_books"],
       [method |-> "GET",    pattern |-> <<SUMMARY>>,              endpoint |-> "summary"],
       [method |-> "POST",   pattern |-> <<IMPORT>>,               endpoint |-> "import_catalog"],
       [method |-> "DELETE", pattern |-> <<CATALOG>>,              endpoint |-> "reset_catalog"] >>

\* a path matches a pattern segment by segment; a path parameter matches
\* any segment that is not empty
path_matches(pattern, path) ==
    /\ Len(pattern) = Len(path)
    /\ \A i \in 1..Len(pattern) :
         IF pattern[i] = PARAM THEN path[i] # <<>> ELSE pattern[i] = path[i]

\* the router takes the first route, in order of registration, that matches
\* path and method; "405" when routes match the path only, "404" when none
\* matches
route(table, method, path) ==
    LET full == {i \in 1..Len(table) :
                    table[i].method = method /\ path_matches(table[i].pattern, path)}
        partial == {i \in 1..Len(table) : path_matches(table[i].pattern, path)}
    IN  IF full # {} THEN table[CHOOSE i \in full : \A j \in full : i <= j].endpoint
        ELSE IF partial # {} THEN "405" ELSE "404"

\* BookCreate: the isbn validator and the min_length of title and author
BookCreate(body) ==
    [valid |-> body.title # <<>> /\ body.author # <<>>,
     isbn |-> normalize_isbn(body.isbn), title |-> body.title, author |-> body.author]

\* an endpoint that catches no error of the service
answer_uncaught(r, success, caught) ==
    [st |-> r.st, err |-> r.err, ret |-> r.ret,
     status |-> IF r.err = "ok" THEN success ELSE 500]

\* what an endpoint answers: the state it leaves, the error the service
\* raised, the books of the response and the status, where each endpoint
\* turns the errors it catches into an HTTPException and any other error
\* leaves the endpoint unhandled (status 500)
answer(r, success, caught) ==
    [st |-> r.st, err |-> r.err, ret |-> r.ret,
     status |-> IF r.err = "ok" THEN success
                ELSE IF r.err \in DOMAIN caught THEN caught[r.err]
                ELSE 500]

Conflict == [AlreadyExists |-> 409]
Missing == [NotFound |-> 404]
ConflictOrMissing == [Unavailable |-> 409, NotFound |-> 404]
Nothing == <<>>

\* the endpoints of create_app
endpoint(name, st, req, stamps, save) ==
    CASE name \in {"root", "health_check"} ->
           answer([st |-> st, err |-> "ok", ret |-> <<>>], 200, Nothing)
      [] name = "list_books" ->
           answer([st |-> st, err |-> "ok", ret |-> list_books(st, req.available_only)],
                  200, Nothing)
      [] name = "create_book" ->
           LET payload == BookCreate(req.body)
           IN  IF ~payload.valid
               THEN [st |-> st, err |-> "ok", ret |-> <<>>, status |-> 422]
               ELSE answer(register_book(st, payload.isbn, payload.title, payload.author,
                                         stamps[1], save), 201, Conflict)
      [] name = "get_book" -> answer(get_book(st, req.path[2]), 200, Missing)
      [] name = "delete_book" -> answer(remove_book(st, req.path[2], save), 204, Missing)
      [] name = "borrow_book" ->
           IF req.body.borrower = ""
           THEN [st |-> st, err |-> "ok", ret |-> <<>>, status |-> 422]
           ELSE answer(borrow_book(st, req.path[2], req.body.borrower, stamps[1], save),
                       200, ConflictOrMissing)
      [] name = "return_book" ->
           answer(return_book(st, req.path[2], save), 200, ConflictOrMissing)
      [] name = "search_books" ->
           answer([st |-> st, err |-> "ok",
                   ret |-> IF req.title # None /\ req.title[1] # <<>>
                           THEN search_by_title(st, req.title[1])
                           ELSE IF req.author # None /\ req.author[1] # <<>>
                           THEN search_by_author(st, req.author[1])
                           ELSE list_books(st, FALSE)],
                  200, Nothing)
      [] name = "summary" -> answer([st |-> st, err |-> "ok", ret |-> <<>>], 200, Nothing)
      [] name = "import_catalog" ->
           LET payload == [i \in 1..Len(req.body.books) |-> BookCreate(req.body.books[i])]
           IN  IF \E i \in 1..Len(payload) : ~payload[i].valid
               THEN [st |-> st, err |-> "ok", ret |-> <<>>, status |-> 422]
               ELSE answer(import_catalog(st, payload, stamps), 200, Nothing)
      [] name = "reset_catalog" -> answer(reset_catalog(st), 204, Nothing)

\* the application answers a request: the router picks the endpoint
serve(table, st, req, stamps, save) ==
    LET name == route(table, req.method, req.path)
    IN  IF name = "404" THEN [st |-> st, err |-> "ok", ret |-> <<>>, status |-> 404,
                              endpoint |-> name]
        ELSE IF name = "405" THEN [st |-> st, err |-> "ok", ret |-> <<>>, status |-> 405,
                                   endpoint |-> name]
        ELSE LET a == endpoint(name, st, req, stamps, save)
             IN  [st |-> a.st, err |-> a.err, ret |-> a.ret, status |-> a.status,
                  endpoint |-> name]

\* the number of clock reads the endpoint of a request makes
request_reads(table, req) ==
    LET name == route(table, req.method, req.path)
    IN  CASE name \in {"create_book", "borrow_book"} -> 1
          [] name = "import_catalog" -> Len(req.body.books)
          [] OTHER -> 0

-----------------------------------------------------------------------------
(* The REST application: one service, constructed when the application is  *)
(* created, answers every request.                                          *)

NoBody == [isbn |-> <<>>, title |-> <<>>, author |-> <<>>, borrower |-> "", books |-> <<>>]

NoRequest ==
    [method |-> "GET", path |-> <<>>, title |-> None, author |-> None,
     available_only |-> FALSE, body |-> NoBody]

Get(path) == [NoRequest EXCEPT !.path = path]
Post(path, body) == [NoRequest EXCEPT !.method = "POST", !.path = path, !.body = body]
Delete(path) == [NoRequest EXCEPT !.method = "DELETE", !.path = path]

Requests ==
    {Post(<<BOOKS>>, [NoBody EXCEPT !.isbn = e.isbn, !.title = e.title, !.author = e.author]) :
        e \in RegisterInputs}
    \cup {Get(<<BOOKS, i>>) : i \in IsbnInputs}
    \cup {Delete(<<BOOKS, i>>) : i \in IsbnInputs}
    \cup {Post(<<BOOKS, i, BORROW>>, [NoBody EXCEPT !.borrower = b]) :
            i \in IsbnInputs, b \in Borrowers}
    \cup {Post(<<BOOKS, i, RETURN>>, NoBody) : i \in IsbnInputs}
    \cup {[Get(<<BOOKS, SEARCH>>) EXCEPT !.title = Some(<<"d","U">>)],
          [Get(<<BOOKS, SEARCH>>) EXCEPT !.author = Some(<<"a","U","s","t">>)],
          [Get(<<BOOKS>>) EXCEPT !.available_only = TRUE],
          Get(<<BOOKS>>), Get(<<SUMMARY>>), Delete(<<CATALOG>>),
          Get(<<>>), Get(<<HEALTH>>)}
    \cup {Post(<<IMPORT>>, [NoBody EXCEPT !.books = e]) : e \in EntryLists}

\* the application has been created, on an absent data file, at time 0
Created(n) ==
    /\ Sequential
    /\ fileExists = TRUE
    /\ alive = TRUE
    /\ autosave \in BOOLEAN
    /\ now = 0
    /\ LET r == construct(opened(FALSE, <<>>), [i \in 1..5 |-> 0], autosave)
       IN  /\ books = r.st.books
           /\ heap = r.st.heap
           /\ file = r.st.file
           /\ last = [op |-> "create_app", req |-> NoRequest, endpoint |-> "",
                      status |-> 200, err |-> r.err, ret |-> r.ret]
    /\ calls = 0
    /\ budget = n

\* the application answers a request
Request(req) ==
    /\ alive
    /\ Counted
    /\ \E ts \in Stamps(request_reads(routes, req)) :
         LET a == serve(routes, State, req, ts, autosave)
         IN  /\ Leaves(a)
             /\ now' = IF a.st.heap = heap THEN now ELSE Clock(ts)
             /\ last' = [op |-> "request", req |-> req, endpoint |-> a.endpoint,
                         status |-> a.status, err |-> a.err, ret |-> a.ret]
    /\ UNCHANGED <<fileExists, alive, autosave>>

NextWeb == \E req \in Requests : Request(req)

SpecWeb == Created(MaxCalls) /\ [][NextWeb]_vars

-----------------------------------------------------------------------------
\* the ISBNs of the records of the data file
FileIsbns(f) == {f[i].isbn : i \in 1..Len(f)}

\* the data file holds every seed ISBN
FileHasSeeds(f) == \A i \in 1..Len(default_isbns) : default_isbns[i] \in FileIsbns(f)

\* C11: a construction that follows a construction, with no call in between,
\* succeeds and yields the same keys and the same book ISBNs as the first,
\* whatever the autosave setting of either; and a construction on a data
\* file that holds all five seed ISBNs adds no book, leaves the file as it
\* was and holds, under the ISBNs of the file, books that are records of
\* the file.
C11_ConstructIsIdempotent ==
    [][ last'.op = "construct"
        => /\ last.op = "construct"
              => /\ last'.err = "ok"
                 /\ Keys(books') = Keys(books)
                 /\ Isbns(State') = Isbns(State)
           /\ FileHasSeeds(file)
              => /\ last'.err = "ok"
                 /\ last'.ret = <<>>
                 /\ file' = file
                 /\ Keys(books') = FileIsbns(file)
                 /\ \A j \in 1..Len(books') : \E i \in 1..Len(file) :
                       snapshot(State')[j] = from_dict(file[i]) ]_vars

\* the service has been constructed a second time, right after the first, on
\* a data file that held the five seeds, and has added nothing
C11_Witness ==
    /\ calls = 1
    /\ last.op = "construct"
    /\ last.ret = <<>>
    /\ FileHasSeeds(file)
    /\ Len(books) = 5

\* C12 (as claimed): a construction on a data file that lacks seed ISBNs
\* yields a catalog that holds all five seed ISBNs and every book of the
\* file, with isbn, title, author, added_at, borrower and borrowed_at as
\* stored; the books it holds besides are the ones it added, one available
\* book for each seed ISBN the file lacked.
C12_TopUpClaim ==
    [][ (last'.op = "construct" /\ ~FileHasSeeds(file))
        => LET after == snapshot(State')
               stored == load_books(file)
               lacked == {default_isbns[i] : i \in 1..Len(default_isbns)} \ FileIsbns(file)
           IN  /\ last'.err = "ok"
               /\ \A i \in 1..Len(default_isbns) : default_isbns[i] \in Keys(books')
               /\ \A i \in 1..Len(stored) : \E j \in 1..Len(after) : after[j] = stored[i]
               /\ \A j \in 1..Len(after) :
                     \/ \E i \in 1..Len(stored) : after[j] = stored[i]
                     \/ \E i \in 1..Len(last'.ret) : after[j] = last'.ret[i]
               /\ {last'.ret[i].isbn : i \in 1..Len(last'.ret)} = lacked
               /\ Len(last'.ret) = Cardinality(lacked)
               /\ \A i \in 1..Len(last'.ret) : is_available(last'.ret[i]) ]_vars

\* C13: in every reachable state, loading what save_books writes for the
\* books of the catalog returns the same books in the same order, with
\* equal isbn, title, author, added_at, borrower and borrowed_at (absent
\* stays absent, present stays present); what is written does not depend on
\* what the data file held before; and a step that changes the data file
\* leaves in it exactly one record for each book of the catalog.
C13_SaveLoadRoundTrip ==
    [][ LET saved == snapshot(State')
            written == persist(State').file
            back == load_books(written)
        IN  /\ back = saved
            /\ \A i \in 1..Len(saved) :
                  /\ (back[i].borrower = None) <=> (saved[i].borrower = None)
                  /\ (back[i].borrowed_at = None) <=> (saved[i].borrowed_at = None)
            /\ written = persist([State' EXCEPT !.file = <<>>]).file
            /\ Len(written) = Len(books')
            /\ file' # file => file' = written ]_vars

\* a borrow has been saved: the data file holds a borrowed book next to an
\* available one
C13_Witness ==
    /\ last.op = "borrow"
    /\ last.err = "ok"
    /\ autosave
    /\ Synced(State)
    /\ \E i \in 1..Len(file) : file[i].borrower # None /\ file[i].borrowed_at # None
    /\ \E i \in 1..Len(file) : file[i].borrower = None /\ file[i].borrowed_at = None

\* the Book objects of the catalog, as references into the heap
Objects == {books[i].ref : i \in 1..Len(books)}

\* C14 (as claimed): in every reachable state list_books(available_only)
\* returns books of the catalog that have no borrower, and each book of the
\* catalog that has no borrower once; the book a borrow has just returned is
\* not in it, and the book a return has just returned is.
C14_FindAvailableClaim ==
    LET avail == list_books(State, TRUE)
    IN  /\ \A j \in 1..Len(avail) :
              /\ avail[j].borrower = None
              /\ \E r \in Objects : heap[r] = avail[j]
        /\ \A r \in Objects :
              heap[r].borrower = None => \E j \in 1..Len(avail) : avail[j] = heap[r]
        /\ Len(avail) = Cardinality({r \in Objects : heap[r].borrower = None})
        /\ (last.op = "borrow" /\ last.err = "ok")
              => \A j \in 1..Len(avail) : avail[j] # last.ret[1]
        /\ (last.op = "return" /\ last.err = "ok")
              => \E j \in 1..Len(avail) : avail[j] = last.ret[1]

\* C15 (as claimed): in every reachable state list_books() returns every
\* book of the catalog once, and nothing else, in non-decreasing order of
\* added_at.
C15_ListClaim ==
    LET all == list_books(State, FALSE)
    IN  /\ \A j \in 1..Len(all) : \E r \in Objects : heap[r] = all[j]
        /\ \A r \in Objects : \E j \in 1..Len(all) : all[j] = heap[r]
        /\ Len(all) = Cardinality(Objects)
        /\ \A j \in 1..Len(all) - 1 : all[j].added_at <= all[j + 1].added_at

-----------------------------------------------------------------------------
\* the keys of the catalog of a service constructed on a data file
KeysOnFile(exists, f) ==
    Keys(construct(opened(exists, f), [i \in 1..5 |-> 0], TRUE).st.books)

\* C16: an invocation of the command line with no --config, or with one
\* that exists, returns from main: with 0 when the service call succeeded,
\* 2 when it raised AlreadyExists, 3 when it raised Unavailable and 4 when
\* it raised NotFound; a borrow or a return of an ISBN that is no key of the
\* catalog returns 4.
C16_ExitCodes ==
    [][ ( /\ last'.op = "main"
          /\ load_overrides(last'.args.config_file).err = "ok"
          /\ last'.err # "FileNotFoundError" )
        => /\ last'.end.how = "return"
           /\ last'.err \in {"ok", "AlreadyExists", "Unavailable", "NotFound"}
           /\ (last'.end.code = 0) <=> (last'.err = "ok")
           /\ (last'.end.code = 2) <=> (last'.err = "AlreadyExists")
           /\ (last'.end.code = 3) <=> (last'.err = "Unavailable")
           /\ (last'.end.code = 4) <=> (last'.err = "NotFound")
           /\ ( /\ last'.args.command \in {"borrow", "return"}
                /\ normalize_isbn(last'.args.isbn) \notin KeysOnFile(fileExists, file) )
              => last'.end.code = 4 ]_vars

\* a return of an ISBN the catalog does not hold has ended with exit code 4,
\* on a data file in which a book is borrowed
C16_Witness ==
    /\ last.op = "main"
    /\ last.args.command = "return"
    /\ last.err = "NotFound"
    /\ last.end = [how |-> "return", code |-> 4]
    /\ \E i \in 1..Len(file) : file[i].borrower # None

\* C17 (as claimed): an invocation with --config naming a file that does
\* not exist ends through parser.error, whatever the command, and not with
\* FileNotFoundError leaving main unhandled.
C17_MissingConfigClaim ==
    ( /\ last.op = "main"
      /\ last.args.config_file # None
      /\ ~last.args.config_file[1].exists )
    => last.end.how = "parser.error"

-----------------------------------------------------------------------------
\* the errors of app/exceptions.py
DomainErrors == {"AlreadyExists", "NotFound", "Unavailable"}

\* the last request was made with this method on a path of this shape
Asked(method, pattern) ==
    /\ last.op = "request"
    /\ last.req.method = method
    /\ path_matches(pattern, last.req.path)
    /\ last.status # 422

\* C18: the REST layer maps the outcome of the service call to the status:
\* POST /books answers 201 on success and 409 on AlreadyExists; GET
\* /books/{isbn} answers 404 on NotFound; DELETE /books/{isbn} answers 204
\* on success and 404 on NotFound; POST /books/{isbn}/borrow and
\* /books/{isbn}/return answer 200 on success, 404 on NotFound and 409 on
\* Unavailable; and no request whose service call raised a domain error is
\* answered as an unhandled fault (status 500).
C18_StatusMapping ==
    /\ Asked("POST", <<BOOKS>>) =>
          /\ last.err = "ok" => last.status = 201
          /\ last.err = "AlreadyExists" => last.status = 409
    /\ Asked("GET", <<BOOKS, PARAM>>) =>
          (last.err = "NotFound" => last.status = 404)
    /\ Asked("DELETE", <<BOOKS, PARAM>>) =>
          /\ last.err = "ok" => last.status = 204
          /\ last.err = "NotFound" => last.status = 404
    /\ Asked("POST", <<BOOKS, PARAM, BORROW>>) \/ Asked("POST", <<BOOKS, PARAM, RETURN>>) =>
          /\ last.err = "ok" => last.status = 200
          /\ last.err = "NotFound" => last.status = 404
          /\ last.err = "Unavailable" => last.status = 409
    /\ last.op = "request" /\ last.err \in DomainErrors => last.status # 500

\* a borrowed book was asked for again and the request was answered 409
C18_Witness ==
    /\ Asked("POST", <<BOOKS, PARAM, BORROW>>)
    /\ last.err = "Unavailable"
    /\ last.status = 409

-----------------------------------------------------------------------------
\* the last request was GET /books/search
AskedSearch ==
    /\ last.op = "request"
    /\ last.req.method = "GET"
    /\ last.req.path = <<BOOKS, SEARCH>>

\* C19: a request GET /books/search?title=T (or ?author=A) is dispatched to
\* the search handler and answered 200 with the books whose title (or
\* author) contains the fragment; it is not captured by the route GET
\* /books/{isbn}.
C19_SearchRouteClaim ==
    AskedSearch =>
        /\ last.endpoint = "search_books"
        /\ last.status = 200
        /\ last.req.title # None =>
              \A i \in 1..Len(last.ret) : contains(last.req.title[1], last.ret[i].title)
        /\ last.req.author # None =>
              \A i \in 1..Len(last.ret) : contains(last.req.author[1], last.ret[i].author)

-----------------------------------------------------------------------------
\* the sum of the counts of a summary
RECURSIVE Total(_, _)
Total(summary, i) ==
    IF i > Len(summary) THEN 0 ELSE summary[i].count + Total(summary, i + 1)

\* where an author is first encountered in the catalog
FirstOf(st, author) ==
    CHOOSE i \in 1..Len(st.books) :
        /\ snapshot(st)[i].author = author
        /\ \A j \in 1..(i - 1) : snapshot(st)[j].author # author

\* the summary of a catalog is what the claim says it is
SummaryOf(st) ==
    LET s == usage_summary(st)
        objects == {st.books[i].ref : i \in 1..Len(st.books)}
    IN  /\ \A k, l \in 1..Len(s) : s[k].author = s[l].author => k = l
        /\ {s[k].author : k \in 1..Len(s)} = {st.heap[r].author : r \in objects}
        /\ \A k \in 1..Len(s) :
              s[k].count = Cardinality({r \in objects : st.heap[r].author = s[k].author})
        /\ Total(s, 1) = Cardinality(objects)
        /\ \A k, l \in 1..Len(s) :
              k < l => FirstOf(st, s[k].author) < FirstOf(st, s[l].author)

\* C20 (as claimed): in every reachable state usage_summary() has one entry
\* for each author of a book of the catalog, with the number of books of
\* the catalog that have exactly that author, the counts sum to the number
\* of books of the catalog, and the entries are in order of first encounter;
\* and neither borrow_book nor return_book changes the summary.
C20_UsageSummaryClaim ==
    [][ /\ alive => SummaryOf(State)
        /\ alive' => SummaryOf(State')
        /\ last'.op \in {"borrow", "return"} =>
              usage_summary(State') = usage_summary(State) ]_vars

-----------------------------------------------------------------------------
\* the fragments searched for
Fragments ==
    { <<>>, <<"d","U">>, <<"E","m","m","a">>, <<"a","U","s","t">>, <<"J">>, <<"z","z">> }

\* text contains fragment when the case of letters is ignored
ContainsIgnoringCase(fragment, text) ==
    \E k \in 0..(Len(text) - Len(fragment)) :
        \A i \in 1..Len(fragment) : lower_ch(text[k + i]) = lower_ch(fragment[i])

\* found holds exactly the books of the catalog that match, each once
ExactlyOnce(found, Matches(_)) ==
    /\ \A j \in 1..Len(found) : \E r \in Objects : heap[r] = found[j] /\ Matches(heap[r])
    /\ \A r \in Objects : Matches(heap[r]) => \E j \in 1..Len(found) : found[j] = heap[r]
    /\ Len(found) = Cardinality({r \in Objects : Matches(heap[r])})

\* the books that two listings share are in the same order in both
SameRelativeOrder(xs, ys) ==
    \A i, j \in 1..Len(xs) : \A k, l \in 1..Len(ys) :
        (i < j /\ xs[i] = ys[k] /\ xs[j] = ys[l] /\ xs[i] # xs[j]) => k < l

\* C21 (as claimed): in every reachable state search_by_title(f) returns
\* exactly the books of the catalog whose title contains f when case is
\* ignored and search_by_author(f) exactly those whose author does, each
\* book once at most, in the same relative order for both searches; and the
\* search leaves the catalog and the data file as they are.
C21_SearchClaim ==
    alive =>
      \A f \in Fragments :
        LET byTitle == search_by_title(State, f)
            byAuthor == search_by_author(State, f)
        IN  /\ ExactlyOnce(byTitle, LAMBDA b : ContainsIgnoringCase(f, b.title))
            /\ ExactlyOnce(byAuthor, LAMBDA b : ContainsIgnoringCase(f, b.author))
            /\ \A g \in Fragments : SameRelativeOrder(byTitle, search_by_author(State, g))
            /\ dispatch(State, [NoArgs EXCEPT !.command = "search", !.fragment = f],
                        <<>>, autosave).st = State
            /\ dispatch(State, [NoArgs EXCEPT !.command = "author", !.author = f],
                        <<>>, autosave).st = State

-----------------------------------------------------------------------------
\* a display string: trimmed and not empty
Display(s) == s # <<>> /\ strip(s) = s

\* C22 (as claimed): in every reachable state every book of the catalog has
\* a title and an author that are trimmed and not empty, whatever strings
\* register_book and import_catalog were given.
C22_DisplayStringsClaim ==
    \A r \in Objects : Display(heap[r].title) /\ Display(heap[r].author)

-----------------------------------------------------------------------------
\* the fields of a book that are set when it is created
Identity(book) ==
    [isbn |-> book.isbn, title |-> book.title, author |-> book.author,
     added_at |-> book.added_at]

\* C23 (as claimed): a borrow, a return or a construction of the service on
\* a data file that holds the catalog leaves isbn, title, author and
\* added_at of every book that stays in the catalog as they were; a borrow
\* and a return keep every book in the catalog, change nothing but borrower
\* and borrowed_at of the book addressed, and change no field of any other
\* book.
C23_IdentityIsKeptClaim ==
    [][ /\ (last'.op \in {"borrow", "return"} \/ (last'.op = "construct" /\ last'.synced)) =>
              \A k \in Keys(books) \cap Keys(books') :
                  Identity(BookAt(State', k)) = Identity(BookAt(State, k))
        /\ last'.op \in {"borrow", "return"} =>
              /\ Keys(books') = Keys(books)
              /\ \A k \in Keys(books) :
                    k # normalize_isbn(last'.isbn) => BookAt(State', k) = BookAt(State, k) ]_vars

-----------------------------------------------------------------------------
(* Two services, A and B, on one data file, both with autosave enabled: A  *)
(* is the service of the variables books and heap, B the one of peer.  Each *)
(* call runs from start to end in one step.                                 *)

NoCall ==
    [op |-> "", isbn |-> <<>>, title |-> <<>>, author |-> <<>>, borrower |-> "",
     entries |-> <<>>]

PairIsbns == { Seed1, <<"j">> }

PairCalls ==
    {[NoCall EXCEPT !.op = "register", !.isbn = i, !.title = <<" ","D","u","n","e"," ">>,
                    !.author = <<"J",".","K",".">>] : i \in PairIsbns}
    \cup {[NoCall EXCEPT !.op = "remove", !.isbn = i] : i \in PairIsbns}
    \cup {[NoCall EXCEPT !.op = "borrow", !.isbn = i, !.borrower = "Alice"] : i \in PairIsbns}
    \cup {[NoCall EXCEPT !.op = "return", !.isbn = i] : i \in PairIsbns}
    \cup {[NoCall EXCEPT !.op = "import", !.entries = <<EntryJCaron>>],
          [NoCall EXCEPT !.op = "reset"]}

\* the service call
call(st, c, stamps, save) ==
    CASE c.op = "register" -> register_book(st, c.isbn, c.title, c.author, stamps[1], save)
      [] c.op = "remove" -> remove_book(st, c.isbn, save)
      [] c.op = "borrow" -> borrow_book(st, c.isbn, c.borrower, stamps[1], save)
      [] c.op = "return" -> return_book(st, c.isbn, save)
      [] c.op = "import" -> import_catalog(st, c.entries, stamps)
      [] c.op = "reset" -> reset_catalog(st)

\* the number of clock reads of a call
call_reads(c) ==
    CASE c.op \in {"register", "borrow"} -> 1
      [] c.op = "import" -> Len(c.entries)
      [] OTHER -> 0

\* the dict and the objects of a service
Catalog(who, bks, hp, pr) == IF who = "A" THEN [books |-> bks, heap |-> hp] ELSE pr

\* the repository of a service: its dict, its objects and the shared file
Mine(who) ==
    LET c == Catalog(who, books, heap, peer)
    IN  [books |-> c.books, heap |-> c.heap, file |-> file]

\* A has been constructed on an absent data file, then B on the file A wrote
Paired(n) ==
    /\ fileExists = TRUE
    /\ alive = TRUE
    /\ autosave = TRUE
    /\ now = 0
    /\ pending = NoPending
    /\ LET a == construct(opened(FALSE, <<>>), [i \in 1..5 |-> 0], TRUE)
           b == construct(opened(TRUE, a.st.file), <<>>, TRUE)
       IN  /\ books = a.st.books
           /\ heap = a.st.heap
           /\ peer = [books |-> b.st.books, heap |-> b.st.heap]
           /\ file = b.st.file
           /\ last = [op |-> "construct", who |-> "B", call |-> NoCall,
                      err |-> b.err, ret |-> b.ret]
    /\ calls = 0
    /\ budget = n

\* one of the two services makes a call
By(who, c) ==
    /\ alive
    /\ calls < budget
    /\ calls' = calls + 1
    /\ budget' = budget
    /\ \E ts \in Stamps(call_reads(c)) :
         LET r == call(Mine(who), c, ts, autosave)
         IN  /\ file' = r.st.file
             /\ books' = IF who = "A" THEN r.st.books ELSE books
             /\ heap' = IF who = "A" THEN r.st.heap ELSE heap
             /\ peer' = IF who = "B" THEN [books |-> r.st.books, heap |-> r.st.heap]
                        ELSE peer
             /\ now' = IF c.op = "borrow" /\ r.err # "ok" THEN now ELSE Clock(ts)
             /\ last' = [op |-> c.op, who |-> who, call |-> c, err |-> r.err,
                         ret |-> r.ret]
    /\ UNCHANGED <<fileExists, alive, autosave, pending>>

NextPair == \E who \in {"A", "B"}, c \in PairCalls : By(who, c)

SpecPair == Paired(MaxCalls) /\ [][NextPair]_vars

\* the service that did not make the last call
Other(who) == IF who = "A" THEN "B" ELSE "A"

\* C24: when two services run on one data file with autosave enabled, a call
\* that succeeds leaves in the file exactly the catalog its service holds in
\* memory, whatever the file held and whatever the other service holds (the
\* file is never a merge of the two: a book only the other service holds is
\* not in it); a call that fails leaves the file alone; and no call changes
\* what the other service holds in memory.
C24_LastWriterWins ==
    [][ LET writer == Catalog(last'.who, books', heap', peer')
            other == Catalog(Other(last'.who), books, heap, peer)
            written == save_books(Values(writer.books, writer.heap))
        IN  /\ last'.err = "ok" =>
                  /\ file' = written
                  /\ \A i \in 1..Len(other.books) :
                        other.heap[other.books[i].ref].isbn \in FileIsbns(file')
                            => \E j \in 1..Len(writer.books) :
                                  writer.heap[writer.books[j].ref].isbn
                                      = other.heap[other.books[i].ref].isbn
            /\ last'.err # "ok" => file' = file
            /\ Catalog(Other(last'.who), books', heap', peer') = other ]_vars

\* A has registered a book and saved it, B has then borrowed another book:
\* the file holds B's loan and no longer the book A registered
C24_Witness ==
    /\ peer # NoPeer
    /\ last.who = "B"
    /\ last.op = "borrow"
    /\ last.err = "ok"
    /\ \E r \in Objects : heap[r].isbn = <<"J">> /\ <<"J">> \notin FileIsbns(file)
    /\ \E i \in 1..Len(file) : file[i].borrower # None

-----------------------------------------------------------------------------
(* Two calls of borrow_book in flight on one service, as two requests       *)
(* served by two threads are: each call takes the steps of                  *)
(* LibraryService.borrow_book one at a time, and the steps of the two calls *)
(* interleave in any order.  Both calls address the first seed, so no       *)
(* object of the catalog is dropped or renumbered while they run.           *)

\* book = self.repository.get(isbn)
borrow_fetch(st, isbn) == get(st, isbn)

\* the availability check that lets every book pass
borrow_check_skipped(st, ref) == "ok"

\* if not book.is_available: raise BookUnavailableError
borrow_check(st, ref) == IF is_available(st.heap[ref]) THEN "ok" ELSE "Unavailable"

\* book.checkout(borrower)
borrow_checkout(st, ref, borrower, t) == [st EXCEPT !.heap[ref] = checkout(@, borrower, t)]

\* self.repository.update(book, autosave=self.config.autosave)
borrow_update(st, ref, save) == update(st, ref, save)

\* a call that has not taken its first step
NotBegun(isbn) == [pc |-> "fetch", isbn |-> isbn, ref |-> 0, err |-> "ok"]

\* the two ways the first seed is written
SeedSpellings ==
    { Seed1, <<"9","7","8","-","0","1","4","3","1","2","7","7","4","1">> }

\* the service has been constructed on an absent data file and two calls of
\* borrow_book, one for each borrower, are about to begin
Interleaved(n) ==
    /\ fileExists = TRUE
    /\ alive = TRUE
    /\ autosave \in BOOLEAN
    /\ now = 0
    /\ peer = NoPeer
    /\ LET r == construct(opened(FALSE, <<>>), [i \in 1..5 |-> 0], autosave)
       IN  /\ books = r.st.books
           /\ heap = r.st.heap
           /\ file = r.st.file
    /\ \E ia, ib \in SeedSpellings :
         pending = [calls |-> [b \in Borrowers |->
                                  NotBegun(IF b = "Alice" THEN ia ELSE ib)],
                    overlapped |-> FALSE,
                    checkouts |-> <<>>]
    /\ last = [op |-> "borrow", who |-> "", step |-> "", err |-> "ok"]
    /\ calls = 0
    /\ budget = n

\* the call of b is between its first step and its end
Running(b) == pending.calls[b].pc \in {"check", "checkout", "update"}

\* the call of b takes a step: its new position and outcome are recorded, and
\* so is whether another call is running meanwhile
Steps(b, step, pc, ref, err) ==
    /\ pending' = [pending EXCEPT
                      !.calls[b] = [@ EXCEPT !.pc = pc, !.ref = ref, !.err = err],
                      !.overlapped = @ \/ \E o \in Borrowers \ {b} : Running(o),
                      !.checkouts = IF step = "checkout" THEN Append(@, b) ELSE @]
    /\ last' = [op |-> "borrow", who |-> b, step |-> step, err |-> err]
    /\ calls' = IF pc = "done" THEN calls + 1 ELSE calls
    /\ UNCHANGED <<fileExists, alive, autosave, peer, budget>>

Fetch(b) ==
    /\ pending.calls[b].pc = "fetch"
    /\ LET g == borrow_fetch(State, pending.calls[b].isbn)
       IN  Steps(b, "fetch", IF g.err = "ok" THEN "check" ELSE "done", g.ret, g.err)
    /\ UNCHANGED <<books, heap, file, now>>

Check(b) ==
    /\ pending.calls[b].pc = "check"
    /\ LET e == borrow_check(State, pending.calls[b].ref)
       IN  Steps(b, "check", IF e = "ok" THEN "checkout" ELSE "done",
                 pending.calls[b].ref, e)
    /\ UNCHANGED <<books, heap, file, now>>

Checkout(b) ==
    /\ pending.calls[b].pc = "checkout"
    /\ \E ts \in Stamps(1) :
         /\ Leaves([st |-> borrow_checkout(State, pending.calls[b].ref, b, ts[1])])
         /\ now' = Clock(ts)
    /\ Steps(b, "checkout", "update", pending.calls[b].ref, "ok")

Update(b) ==
    /\ pending.calls[b].pc = "update"
    /\ LET u == borrow_update(State, pending.calls[b].ref, autosave)
       IN  /\ Leaves(u)
           /\ Steps(b, "update", "done", pending.calls[b].ref, u.err)
    /\ UNCHANGED now

NextInterleaved ==
    \E b \in Borrowers : Fetch(b) \/ Check(b) \/ Checkout(b) \/ Update(b)

SpecInterleaved == Interleaved(MaxCalls) /\ [][NextInterleaved]_vars

\* both calls have ended
BothDone == \A b \in Borrowers : pending.calls[b].pc = "done"

\* the calls that ended without an error
Succeeded == {b \in Borrowers : pending.calls[b].pc = "done" /\ pending.calls[b].err = "ok"}

\* C25: of two calls of borrow_book on the same available book, when each
\* runs from its first step to its last while the other is not running,
\* exactly one succeeds, the other fails with Unavailable and the book is
\* borrowed by the one that succeeded; both calls succeed only when their
\* steps overlap, and then the book is left with the borrower of the call
\* that checked the book out last, the borrower of the other being lost.
C25_LostUpdate ==
    (pending # NoPending /\ BothDone) =>
        /\ ~pending.overlapped =>
              /\ Cardinality(Succeeded) = 1
              /\ \A b \in Borrowers \ Succeeded : pending.calls[b].err = "Unavailable"
              /\ \A b \in Succeeded : BookAt(State, Seed1).borrower = Some(b)
        /\ Succeeded = Borrowers =>
              /\ pending.overlapped
              /\ Len(pending.checkouts) = 2
              /\ BookAt(State, Seed1).borrower = Some(pending.checkouts[2])
              /\ BookAt(State, Seed1).borrower # Some(pending.checkouts[1])

\* both calls have succeeded: Alice checked the book out first, Bob after
\* her, and the book is Bob's
C25_Witness ==
    /\ pending # NoPending
    /\ BothDone
    /\ Succeeded = Borrowers
    /\ pending.checkouts = <<"Alice", "Bob">>
    /\ BookAt(State, Seed1).borrower = Some("Bob")

-----------------------------------------------------------------------------
\* the books a list holds
BooksOf(bookseq) == {bookseq[i] : i \in 1..Len(bookseq)}

\* C26: with autosave disabled, the construction of the service and
\* register_book, remove_book, borrow_book and return_book leave the data
\* file as it was, whether they succeed or fail; import_catalog and
\* reset_catalog write the catalog they leave; and every book of a service
\* constructed on the data file is a book of the file or a seed the
\* construction has just added, whatever the service before it held in
\* memory.
C26_AutosaveOffKeepsStore ==
    [][ /\ (~autosave' /\ last'.op \in {"construct", "register", "remove", "borrow", "return"})
              => file' = file
        /\ (~autosave' /\ last'.op \in {"import", "reset"})
              => file' = save_books(snapshot(State'))
        /\ (~autosave' /\ last'.op = "construct")
              => \A r \in Objects' :
                    heap'[r] \in BooksOf(load_books(file)) \cup BooksOf(last'.ret) ]_vars

\* a loan made with autosave disabled is in memory and not in the data file
C26_Witness ==
    /\ ~autosave
    /\ last.op = "borrow"
    /\ last.err = "ok"
    /\ \E r \in Objects : heap[r].borrower # None
    /\ \A i \in 1..Len(file) : file[i].borrower = None
    /\ file # <<>>

-----------------------------------------------------------------------------
(* The repository on its own: LibraryRepository is constructed on the data *)
(* file and its caller hands it Book objects whose isbn is any string.      *)

\* the (isbn, title, author) of the books handed to the repository
RepoBooks == {EntryJ, EntrySeed1, EntryJCaron}

\* LibraryRepository(LibraryStorage(path)) on an absent data file
Repository(n) ==
    /\ Sequential
    /\ fileExists = TRUE
    /\ alive = TRUE
    /\ autosave \in BOOLEAN
    /\ now = 0
    /\ LET st == opened(FALSE, <<>>)
       IN  books = st.books /\ heap = st.heap /\ file = st.file
    /\ last = [op |-> "open", isbn |-> <<>>, entries |-> <<>>, synced |-> TRUE,
               err |-> "ok", ret |-> <<>>]
    /\ calls = 0
    /\ budget = n

\* no book is returned by the operations of the repository that change it
Done(r) == [st |-> r.st, err |-> r.err, ret |-> <<>>]

RepoAdd(e) ==
    /\ Counted
    /\ \E ts \in Stamps(1) :
         LET r == add(State, Book(e.isbn, e.title, e.author, ts[1]), autosave)
         IN  /\ Leaves(r)
             /\ now' = Clock(ts)
             /\ last' = Call("add", e.isbn, <<>>, Done(r))
    /\ UNCHANGED <<fileExists, alive, autosave>>

RepoRemove(isbn) ==
    /\ Counted
    /\ LET r == remove(State, isbn, autosave)
       IN  /\ Leaves(r)
           /\ last' = Call("remove", isbn, <<>>, Done(r))
    /\ UNCHANGED <<fileExists, alive, autosave, now>>

\* update(book) with a book fetched from the repository
RepoUpdate(isbn) ==
    /\ Counted
    /\ get(State, isbn).err = "ok"
    /\ LET r == update(State, get(State, isbn).ret, autosave)
       IN  /\ Leaves(r)
           /\ last' = Call("update", isbn, <<>>, Done(r))
    /\ UNCHANGED <<fileExists, alive, autosave, now>>

RepoSaveAll(entries) ==
    /\ Counted
    /\ \E ts \in Stamps(Len(entries)) :
         LET bookseq == [i \in 1..Len(entries) |->
                            Book(entries[i].isbn, entries[i].title, entries[i].author, ts[i])]
         IN  /\ Leaves([st |-> save_all(State, bookseq)])
             /\ now' = Clock(ts)
             /\ last' = Call("save_all", <<>>, entries,
                             [err |-> "ok", ret |-> <<>>])
    /\ UNCHANGED <<fileExists, alive, autosave>>

\* a new repository is constructed on the data file
RepoOpen ==
    /\ Counted
    /\ Leaves([st |-> opened(fileExists, file)])
    /\ last' = Call("open", <<>>, <<>>, [err |-> "ok", ret |-> <<>>])
    /\ UNCHANGED <<fileExists, alive, autosave, now>>

NextRepo ==
    \/ \E e \in RepoBooks : RepoAdd(e)
    \/ \E isbn \in IsbnInputs : RepoRemove(isbn)
    \/ \E isbn \in IsbnInputs : RepoUpdate(isbn)
    \/ \E entries \in EntryLists : RepoSaveAll(entries)
    \/ RepoOpen

SpecRepo == Repository(MaxCalls) /\ [][NextRepo]_vars

\* C27 (as claimed): in every reachable state of the repository every key of
\* the mapping is in normal form and is the isbn of the book it maps to, no
\* two entries have the same normalized ISBN, and get(book.isbn) returns
\* every book of the mapping.
C27_KeysAreIsbnsClaim ==
    /\ \A i \in 1..Len(books) :
          /\ books[i].key = normalize_isbn(books[i].key)
          /\ books[i].key = heap[books[i].ref].isbn
          /\ get(State, heap[books[i].ref].isbn) = [err |-> "ok", ret |-> books[i].ref]
    /\ \A i, j \in 1..Len(books) :
          normalize_isbn(books[i].key) = normalize_isbn(books[j].key) => i = j

-----------------------------------------------------------------------------
\* C28 (as claimed): the list import_catalog returns holds exactly the books
\* that are in the catalog after the call, one for each normalized ISBN of
\* the entries, and is as long as the catalog is large.
C28_ImportReturnsCatalogClaim ==
    last.op = "import" =>
        /\ Len(last.ret) = Len(books)
        /\ BooksOf(last.ret) = BooksOf(snapshot(State))
        /\ \A i, j \in 1..Len(last.ret) :
              normalize_isbn(last.ret[i].isbn) = normalize_isbn(last.ret[j].isbn) => i = j
        /\ {normalize_isbn(last.ret[i].isbn) : i \in 1..Len(last.ret)} = Keys(books)

-----------------------------------------------------------------------------
\* C29 (as claimed): in every reachable state list_books(available_only=True)
\* is list_books() with the borrowed books dropped, so the available books
\* are in the same order, by added_at ascending, in both listings.
C29_ListingsAgreeClaim ==
    LET all == list_books(State, FALSE)
        avail == list_books(State, TRUE)
    IN  /\ avail = SelectSeq(all, is_available)
        /\ \A j \in 1..Len(avail) - 1 : avail[j].added_at <= avail[j + 1].added_at

====
